---------------------------- MODULE Spec2Model ----------------------------
(***************************************************************************)
(* Model of tarantool_locksmith/locksmith.py: the Locksmith coordinator    *)
(* (lazy, lock-guarded construction of one shared connection, the two      *)
(* substitution points, acquire / update / release / statistics) and the   *)
(* Lock handle, used by several client threads against the remote          *)
(* locksmith authority.  The authority is not part of this repository; it  *)
(* is modelled from its documented contract.                               *)
(***************************************************************************)
EXTENDS Integers, Sequences, FiniteSets, TLC

(* ------------------------------ bounds --------------------------------- *)
\* threads sharing one Locksmith instance
NumThreads == 3
\* validity values offered to acquire / update are 1..MaxValidity
MaxValidity == 2
\* positive timeouts offered to acquire are 1..MaxTimeout (besides None and 0)
MaxTimeout == 1
\* at most MaxUid leases are granted in one behaviour
MaxUid == 2
\* at most MaxSubst substitutions (connection class or lock) in one behaviour
MaxSubst == 2

(* ------------------------------ values --------------------------------- *)
\* Python None where a number is expected (the timeout argument)
None == -1
\* a wait whose time is up: more than the timeout has passed
Overdue == -2
\* nil in a reply tuple, None as a lock uid
Nil == 0
\* a lock uid the authority never issued
UnknownUid == MaxUid + 1

Threads == 1..NumThreads
\* the two of them that run the lock protocol (acquire / update / release)
Clients == {1, 2}
Names == {"foo", "bar"}
Validities == 1..MaxValidity
Timeouts == {None, 0} \cup (1..MaxTimeout)
\* mutex objects: the one made by __init__ plus one per substitution
Mutexes == 1..(MaxSubst + 1)

\* what a substituted connection class / lock object can be:
\* "None", an object with the required methods, an object without them
\* (for the lock: with only one of the two, or with neither)
ConClasses == {"None", "Custom", "Bad"}
LockObjects == {"None", "Good", "EnterOnly", "ExitOnly", "Bad"}

\* arguments offered to Locksmith(host, port): the default port of line 107,
\* hosts ("None" is Python None) and ports of several Python types (val is the
\* number, or for a str whether it is empty (0) or not)
DefaultPort == 33013
Hosts == {"", "None", "localhost"}
Ports ==
    {[type |-> "int", val |-> 0], [type |-> "int", val |-> DefaultPort],
     [type |-> "bool", val |-> 1], [type |-> "str", val |-> 0],
     [type |-> "str", val |-> DefaultPort], [type |-> "float", val |-> DefaultPort],
     [type |-> "NoneType", val |-> 0]}
\* the attributes of an object on which __init__ has not run
NoHost == "unset"
NoPort == [type |-> "unset", val |-> 0]
NoLock == [id |-> 0, cls |-> "unset"]

\* the unset connection (self._tnt = None) and a constructed instance
NoChan == [id |-> 0, cls |-> "None"]
Channel(i, c) == [id |-> i, cls |-> c]

\* Python values returned (or raised) by the public methods
PyNone == [kind |-> "None", name |-> "", uid |-> Nil]
PyTrue == [kind |-> "True", name |-> "", uid |-> Nil]
PyFalse == [kind |-> "False", name |-> "", uid |-> Nil]
PyBool(b) == IF b THEN PyTrue ELSE PyFalse
PyStats(n) == [kind |-> "stats", name |-> "", uid |-> n]
Raised(e) == [kind |-> "raise", name |-> e, uid |-> Nil]
\* class Lock: the handle made by a successful acquire
Lock(name, uid) == [kind |-> "Lock", name |-> name, uid |-> uid]

\* no reply tuple
NoReply == <<>>

\* the call a thread runs: method and arguments
NoOp == [kind |-> "none", name |-> "", uid |-> Nil, validity |-> 0, timeout |-> None]

VARIABLES
    host,         \* self.host
    port,         \* self.port
    _tnt,         \* self._tnt: NoChan or the shared connection
    _conclass,    \* self._conclass: "Connection" (tarantool.Connection) or "Custom"
    _lockinst,    \* self._lockinst: the current lock object (id and kind)
    mutex,        \* mutex object -> thread inside its `with` block, 0 if free
    constructed,  \* number of connections the connection constructor has made
    nmutex,       \* number of mutex objects made so far
    nsubst,       \* number of calls of the two setters so far
    cpc,          \* the configuring caller's position in the constructor / setter it runs
    cresult,      \* value returned / raised by the configuring caller's last call
    pc,           \* thread -> position in the method it runs
    op,           \* thread -> the call it runs and its arguments
    lk,           \* thread -> the mutex object it read from tarantool_lock
    inst,         \* thread -> the connection it constructed, not yet assigned
    concls,       \* thread -> the class it read from self.tarantool_connection and
                  \* has not yet called ("None": none)
    chan,         \* thread -> the value self.tnt returned to it
    result,       \* thread -> value returned / raised by its last call
    waitLeft,     \* thread -> seconds the authority still keeps its acquire waiting
    reply,        \* thread -> the reply tuple on its way back to its self.tnt.call
    locks,        \* the Lock handles returned so far
    leases,       \* the authority's lock table: records name, uid, ttl (the
                  \* seconds left until the lease expires)
    nextUid       \* the next uid the authority issues

connVars == <<host, port, _tnt, _conclass, _lockinst, mutex, constructed, nmutex,
              nsubst, cpc, cresult>>
thrVars == <<pc, op, lk, inst, concls, chan, result, waitLeft, reply>>
authVars == <<leases, nextUid>>
vars == <<host, port, _tnt, _conclass, _lockinst, mutex, constructed, nmutex, nsubst,
          cpc, cresult, pc, op, lk, inst, concls, chan, result, waitLeft, reply, locks,
          leases, nextUid>>

\* Locksmith() with the default arguments (no connection yet, default class, a
\* fresh threading.Lock) and an authority holding no lease
Init ==
    /\ host = "localhost"
    /\ port = [type |-> "int", val |-> DefaultPort]
    /\ _tnt = NoChan
    /\ _conclass = "Connection"
    /\ _lockinst = [id |-> 1, cls |-> "threading.Lock"]
    /\ mutex = [m \in Mutexes |-> 0]
    /\ constructed = 0
    /\ nmutex = 1
    /\ nsubst = 0
    /\ cpc = "idle"
    /\ cresult = PyNone
    /\ pc = [t \in Threads |-> "idle"]
    /\ op = [t \in Threads |-> NoOp]
    /\ lk = [t \in Threads |-> 0]
    /\ inst = [t \in Threads |-> NoChan]
    /\ concls = [t \in Threads |-> "None"]
    /\ chan = [t \in Threads |-> NoChan]
    /\ result = [t \in Threads |-> PyNone]
    /\ waitLeft = [t \in Threads |-> None]
    /\ reply = [t \in Threads |-> NoReply]
    /\ locks = {}
    /\ leases = {}
    /\ nextUid = 1

(* ------------------------- Locksmith.__init__ -------------------------- *)
\* Python truth of the arguments: None and "" are false; so are 0, 0.0, False
Truthy_host(h) == h # "" /\ h # "None"
Truthy_port(p) == p.type # "NoneType" /\ p.val # 0
\* isinstance(port, int): bool is a subclass of int
IsInt(p) == p.type \in {"int", "bool"}

\* lines 110 and 115, `raise Lock.BadConfigException(...)`: the module's class
\* Lock (lines 61-86) has no attribute BadConfigException (the exception is a
\* member of Locksmith, line 95), so evaluating the expression raises
\* AttributeError before any exception object is made
Lock_BadConfigException == Raised("AttributeError")

\* the state before Locksmith(host, port) is called: no object, no connection
InitNew ==
    /\ host = NoHost
    /\ port = NoPort
    /\ _tnt = NoChan
    /\ _conclass = "unset"
    /\ _lockinst = NoLock
    /\ mutex = [m \in Mutexes |-> 0]
    /\ constructed = 0
    /\ nmutex = 0
    /\ nsubst = 0
    /\ cpc = "new"
    /\ cresult = PyNone
    /\ pc = [t \in Threads |-> "idle"]
    /\ op = [t \in Threads |-> NoOp]
    /\ lk = [t \in Threads |-> 0]
    /\ inst = [t \in Threads |-> NoChan]
    /\ concls = [t \in Threads |-> "None"]
    /\ chan = [t \in Threads |-> NoChan]
    /\ result = [t \in Threads |-> PyNone]
    /\ waitLeft = [t \in Threads |-> None]
    /\ reply = [t \in Threads |-> NoReply]
    /\ locks = {}
    /\ leases = {}
    /\ nextUid = 1

\* lines 107-125: the two checks, then the assignments
Locksmith_init(h, p) ==
    /\ cpc = "new"
    /\ IF ~Truthy_host(h) \/ ~Truthy_port(p)
       THEN /\ cresult' = Lock_BadConfigException
            /\ cpc' = "failed"
            /\ UNCHANGED <<host, port, _tnt, _conclass, _lockinst, nmutex>>
       ELSE IF ~IsInt(p)
       THEN /\ cresult' = Lock_BadConfigException
            /\ cpc' = "failed"
            /\ UNCHANGED <<host, port, _tnt, _conclass, _lockinst, nmutex>>
       ELSE /\ host' = h
            /\ port' = p
            /\ _lockinst' = [id |-> 1, cls |-> "threading.Lock"]
            /\ nmutex' = 1
            /\ _conclass' = "Connection"
            /\ _tnt' = NoChan
            /\ cresult' = PyNone
            /\ cpc' = "idle"
    /\ UNCHANGED <<mutex, constructed, nsubst, thrVars, locks, authVars>>

(* ----------------------- Locksmith.tnt (getter) ------------------------ *)
\* line 180: the unlocked first check `if self._tnt is None`
TntCheck(t) ==
    /\ pc[t] = "tnt_check"
    /\ pc' = [pc EXCEPT ![t] = IF _tnt = NoChan THEN "tnt_getlock" ELSE "tnt_return"]
    /\ UNCHANGED <<connVars, op, lk, inst, concls, chan, result, waitLeft, reply, locks, authVars>>

\* line 181, first half: evaluate the property self.tarantool_lock
TntGetLock(t) ==
    /\ pc[t] = "tnt_getlock"
    /\ lk' = [lk EXCEPT ![t] = _lockinst.id]
    /\ pc' = [pc EXCEPT ![t] = "tnt_enter"]
    /\ UNCHANGED <<connVars, op, inst, concls, chan, result, waitLeft, reply, locks, authVars>>

\* line 181, second half: __enter__ of that lock object, blocking while it is held
TntEnter(t) ==
    /\ pc[t] = "tnt_enter"
    /\ mutex[lk[t]] = 0
    /\ mutex' = [mutex EXCEPT ![lk[t]] = t]
    /\ pc' = [pc EXCEPT ![t] = "tnt_recheck"]
    /\ UNCHANGED <<host, port, _tnt, _conclass, _lockinst, constructed, nmutex, nsubst,
                   cpc, cresult, op, lk, inst, concls, chan, result, waitLeft, reply, locks, authVars>>

\* a getter without the second check: every thread that got in constructs
TntRecheckTarget_NoRecheck == "tnt_getclass"
\* line 182: the second check, made inside the lock
TntRecheckTarget == IF _tnt = NoChan THEN "tnt_getclass" ELSE "tnt_exit"

TntRecheck(t) ==
    /\ pc[t] = "tnt_recheck"
    /\ pc' = [pc EXCEPT ![t] = TntRecheckTarget]
    /\ UNCHANGED <<connVars, op, lk, inst, concls, chan, result, waitLeft, reply, locks, authVars>>

\* line 183, `self.tarantool_connection`: the property getter (lines 127-135)
\* returns self._conclass; __init__ and the setter never leave it None, so the
\* assignment of line 134 is never made
TntGetClass(t) ==
    /\ pc[t] = "tnt_getclass"
    /\ concls' = [concls EXCEPT ![t] = _conclass]
    /\ pc' = [pc EXCEPT ![t] = "tnt_construct"]
    /\ UNCHANGED <<connVars, op, lk, inst, chan, result, waitLeft, reply, locks, authVars>>

\* lines 183-189, the call: the class that was read is called with the
\* arguments, whatever self._conclass is by now
TntConstruct(t) ==
    /\ pc[t] = "tnt_construct"
    /\ constructed' = constructed + 1
    /\ inst' = [inst EXCEPT ![t] = Channel(constructed + 1, concls[t])]
    /\ concls' = [concls EXCEPT ![t] = "None"]
    /\ pc' = [pc EXCEPT ![t] = "tnt_assign"]
    /\ UNCHANGED <<host, port, _tnt, _conclass, _lockinst, mutex, nmutex, nsubst,
                   cpc, cresult, op, lk, chan, result, waitLeft, reply, locks, authVars>>

\* line 183, the assignment self._tnt = <the new connection>
TntAssign(t) ==
    /\ pc[t] = "tnt_assign"
    /\ _tnt' = inst[t]
    /\ inst' = [inst EXCEPT ![t] = NoChan]
    /\ pc' = [pc EXCEPT ![t] = "tnt_exit"]
    /\ UNCHANGED <<host, port, _conclass, _lockinst, mutex, constructed, nmutex, nsubst,
                   cpc, cresult, op, lk, concls, chan, result, waitLeft, reply, locks, authVars>>

\* lines 183-189, right-hand side, when the constructor raises (tarantool's
\* Connection connects when it is made): nothing is assigned, and the exception
\* leaves through the `with` block
TntConstructFails(t) ==
    /\ pc[t] = "tnt_construct"
    /\ result' = [result EXCEPT ![t] = Raised("NetworkError")]
    /\ concls' = [concls EXCEPT ![t] = "None"]
    /\ pc' = [pc EXCEPT ![t] = "tnt_exit"]
    /\ UNCHANGED <<connVars, op, lk, inst, chan, waitLeft, reply, locks, authVars>>

\* where the thread goes on leaving the `with` block: on to line 190, or out of
\* the method with the exception that is passing
TntExitTarget(t) == IF result[t].kind = "raise" THEN "ret" ELSE "tnt_return"

\* a getter that never releases the lock it took
TntExit_HoldsLock(t) ==
    /\ pc[t] = "tnt_exit"
    /\ lk' = [lk EXCEPT ![t] = 0]
    /\ pc' = [pc EXCEPT ![t] = TntExitTarget(t)]
    /\ UNCHANGED <<connVars, op, inst, concls, chan, result, waitLeft, reply, locks, authVars>>

\* lock.acquire() ... lock.release() in place of `with`: an exception skips the release
TntExit_LeakOnError(t) ==
    /\ pc[t] = "tnt_exit"
    /\ mutex' = IF result[t].kind = "raise" THEN mutex ELSE [mutex EXCEPT ![lk[t]] = 0]
    /\ lk' = [lk EXCEPT ![t] = 0]
    /\ pc' = [pc EXCEPT ![t] = TntExitTarget(t)]
    /\ UNCHANGED <<host, port, _tnt, _conclass, _lockinst, constructed, nmutex, nsubst,
                   cpc, cresult, op, inst, concls, chan, result, waitLeft, reply, locks, authVars>>

\* leaving the `with` block, normally or with an exception: __exit__ of the
\* lock object entered
TntExit(t) ==
    /\ pc[t] = "tnt_exit"
    /\ mutex' = [mutex EXCEPT ![lk[t]] = 0]
    /\ lk' = [lk EXCEPT ![t] = 0]
    /\ pc' = [pc EXCEPT ![t] = TntExitTarget(t)]
    /\ UNCHANGED <<host, port, _tnt, _conclass, _lockinst, constructed, nmutex, nsubst,
                   cpc, cresult, op, inst, concls, chan, result, waitLeft, reply, locks, authVars>>

\* line 190: return self._tnt
TntReturn(t) ==
    /\ pc[t] = "tnt_return"
    /\ chan' = [chan EXCEPT ![t] = _tnt]
    /\ pc' = [pc EXCEPT ![t] = "call"]
    /\ UNCHANGED <<connVars, op, lk, inst, concls, result, waitLeft, reply, locks, authVars>>

\* the property tnt, one step at a time
tnt(t) ==
    \/ TntCheck(t)
    \/ TntGetLock(t)
    \/ TntEnter(t)
    \/ TntRecheck(t)
    \/ TntGetClass(t)
    \/ TntConstruct(t)
    \/ TntAssign(t)
    \/ TntExit(t)
    \/ TntReturn(t)


(* -------------------- the two substitution points ---------------------- *)
\* dir(con_cls): `call` is there for a class that defines it; `__init__` is in
\* the dir() of every Python object
HasCall(con_cls) == con_cls = "Custom"
HasInit(con_cls) == TRUE
\* a setter that takes any class it is given
ConClassOk_Any(con_cls) == TRUE
\* line 145
ConClassOk(con_cls) == HasCall(con_cls) /\ HasInit(con_cls)

\* dir(lock)
HasEnter(lock) == lock \in {"Good", "EnterOnly"}
HasExit(lock) == lock \in {"Good", "ExitOnly"}
\* a setter that looks for __enter__ only
LockOk_EnterOnly(lock) == HasEnter(lock)
\* line 171
LockOk(lock) == HasEnter(lock) /\ HasExit(lock)

\* tarantool_connection setter, lines 143-149: None resets to the default class,
\* a class with `call` and `__init__` is taken, anything else raises TypeError
\* before anything is changed
SetConnectionClass(con_cls) ==
    /\ cpc = "idle"
    /\ nsubst < MaxSubst
    /\ nsubst' = nsubst + 1
    /\ IF con_cls = "None"
       THEN /\ _conclass' = "Connection"
            /\ cresult' = PyNone
            /\ cpc' = "reset"
       ELSE IF ConClassOk(con_cls)
       THEN /\ _conclass' = con_cls
            /\ cresult' = PyNone
            /\ cpc' = "reset"
       ELSE /\ cresult' = Raised("TypeError")
            /\ UNCHANGED <<_conclass, cpc>>
    /\ UNCHANGED <<host, port, _tnt, _lockinst, mutex, constructed, nmutex,
                   thrVars, locks, authVars>>

\* tarantool_connection setter, line 150: self._tnt = None
SetConnectionReset ==
    /\ cpc = "reset"
    /\ _tnt' = NoChan
    /\ cpc' = "idle"
    /\ UNCHANGED <<host, port, _conclass, _lockinst, mutex, constructed, nmutex, nsubst,
                   cresult, thrVars, locks, authVars>>

\* tarantool_lock setter, lines 169-175: None makes a fresh threading.Lock, an
\* object with `__enter__` and `__exit__` is taken, anything else raises TypeError
SetLock(lock) ==
    /\ cpc = "idle"
    /\ nsubst < MaxSubst
    /\ nsubst' = nsubst + 1
    /\ IF lock = "None"
       THEN /\ _lockinst' = [id |-> nmutex + 1, cls |-> "threading.Lock"]
            /\ nmutex' = nmutex + 1
            /\ cresult' = PyNone
       ELSE IF LockOk(lock)
       THEN /\ _lockinst' = [id |-> nmutex + 1, cls |-> lock]
            /\ nmutex' = nmutex + 1
            /\ cresult' = PyNone
       ELSE /\ cresult' = Raised("TypeError")
            /\ UNCHANGED <<_lockinst, nmutex>>
    /\ UNCHANGED <<host, port, _tnt, _conclass, mutex, constructed, cpc,
                   thrVars, locks, authVars>>

(* ------------------ the remote authority (locksmith) ------------------- *)
\* a lease is active while it has time left
Active(l) == l.ttl > 0
\* an authority that takes a lease for expired one second early
IsHeld_OneSecondEarly(n) == \E l \in leases : l.name = n /\ l.ttl > 1
\* the name has an active lease
IsHeld(n) == \E l \in leases : l.name = n /\ Active(l)
\* the uid is that of an active lease
IsActiveUid(u) == \E l \in leases : l.uid = u /\ Active(l)
\* the timeout of an acquire call: absent in the 2-argument shape
ArgTimeout(args) == IF Len(args) = 3 THEN args[3] ELSE None

\* the table after granting name n for v seconds: expired leases of n are dropped
GrantLeases(n, v) ==
    {l \in leases : ~(l.name = n /\ ~Active(l))}
        \cup {[name |-> n, uid |-> nextUid, ttl |-> v]}
\* the table after update(u, v) of an active lease: same uid, expiry v seconds
\* from now
UpdateLeases(u, v) ==
    {IF l.uid = u /\ Active(l) THEN [l EXCEPT !.ttl = v] ELSE l : l \in leases}
\* the table after release(u) of an active lease
ReleaseLeases(u) == {l \in leases : ~(l.uid = u /\ Active(l))}

\* reply tuples: (ok, name, leaseId) for acquire, (ok) for update and release
AcquireGranted(n) == <<nextUid, n, nextUid>>
AcquireRefused(n) == <<Nil, n, Nil>>
UidReply(u) == IF IsActiveUid(u) THEN <<u>> ELSE <<Nil>>

(* ----------------------------- Locksmith ------------------------------- *)
\* `if timeout:` in place of `if timeout is not None`: timeout 0 is not sent
acquire_args_Truthy(lock_name, validity, timeout) ==
    IF timeout # None /\ timeout # 0
    THEN <<lock_name, validity, timeout>> ELSE <<lock_name, validity>>
\* the timeout never sent
acquire_args_DropTimeout(lock_name, validity, timeout) == <<lock_name, validity>>
\* lines 203-205: (lock_name, validity), plus timeout when it is not None
acquire_args(lock_name, validity, timeout) ==
    IF timeout # None THEN <<lock_name, validity, timeout>> ELSE <<lock_name, validity>>

\* an acquire that makes a Lock of every reply, without looking at element 0
acquire_result_NoCheck(the_tuple) == Lock(the_tuple[2], the_tuple[3])
\* lines 209-210: a Lock from elements 1 and 2 when element 0 is not None
acquire_result(the_tuple) ==
    IF the_tuple[1] # Nil THEN Lock(the_tuple[2], the_tuple[3]) ELSE PyNone

\* an update that answers True whatever the reply
update_result_AlwaysTrue(the_tuple) == PyTrue
\* an update that raises on a reply whose element 0 is None
update_result_Raises(the_tuple) ==
    IF the_tuple[1] # Nil THEN PyTrue ELSE Raised("ZeroTupleException")
\* line 220
update_result(the_tuple) == PyBool(the_tuple[1] # Nil)

\* a release that answers True whatever the reply
release_result_AlwaysTrue(the_tuple) == PyTrue
\* line 230
release_result(the_tuple) == PyBool(the_tuple[1] # Nil)

\* the calls a caller can make
acquire_op(lock_name, validity, timeout) ==
    [kind |-> "acquire", name |-> lock_name, uid |-> Nil,
     validity |-> validity, timeout |-> timeout]
update_op(lock_uid, validity) ==
    [kind |-> "update", name |-> "", uid |-> lock_uid,
     validity |-> validity, timeout |-> None]
release_op(lock_uid) ==
    [kind |-> "release", name |-> "", uid |-> lock_uid, validity |-> 0, timeout |-> None]
statistics_op ==
    [kind |-> "statistics", name |-> "", uid |-> Nil, validity |-> 0, timeout |-> None]

\* uids a caller can name: every uid issued so far and one never issued
KnownUids == (1..(nextUid - 1)) \cup {UnknownUid}
\* the authority can issue a uid now
CanIssue == nextUid <= MaxUid

\* a thread, idle or back from its last call, enters a public method of the
\* Locksmith: each of them starts by reading the property self.tnt
\* (lines 207, 218, 228, 234)
Enter(t) ==
    /\ pc[t] \in {"idle", "ret"}
    /\ pc' = [pc EXCEPT ![t] = "tnt_check"]
    /\ op' = [op EXCEPT ![t] = NoOp]
    /\ chan' = [chan EXCEPT ![t] = NoChan]
    /\ result' = [result EXCEPT ![t] = PyNone]
    /\ UNCHANGED <<connVars, lk, inst, concls, waitLeft, reply, locks, authVars>>

\* the record of a call the authority has served: its validity argument, which
\* nothing reads after that, is not kept
Done(o) == [o EXCEPT !.validity = 0]

\* the authority has served call o of thread t: the reply tuple is on its way
\* to the thread, which is blocked in self.tnt.call(...)
Reply(t, o, the_tuple) ==
    /\ op' = [op EXCEPT ![t] = Done(o)]
    /\ reply' = [reply EXCEPT ![t] = the_tuple]
    /\ pc' = [pc EXCEPT ![t] = "reply"]
    /\ waitLeft' = [waitLeft EXCEPT ![t] = None]
    /\ UNCHANGED <<connVars, lk, inst, concls, chan, result, locks>>

\* the method returns value r (or raises it); a Lock it returns is from now on
\* in the callers' hands
Return(t, r) ==
    /\ result' = [result EXCEPT ![t] = r]
    /\ locks' = IF r.kind = "Lock" THEN locks \cup {r} ELSE locks
    /\ pc' = [pc EXCEPT ![t] = "ret"]
    /\ reply' = [reply EXCEPT ![t] = NoReply]

\* the authority grants the acquire of thread t
Grant(t, o, n, v) ==
    /\ leases' = GrantLeases(n, v)
    /\ nextUid' = nextUid + 1
    /\ Reply(t, o, AcquireGranted(n))

\* the authority refuses the acquire of thread t
Refuse(t, o, n) ==
    /\ Reply(t, o, AcquireRefused(n))
    /\ UNCHANGED authVars

\* lines 203-207, up to the request being served: the call reaches the
\* authority, which grants a free name at once, refuses a held one at once when
\* timeout is 0, and otherwise keeps the request waiting (for timeout seconds, or
\* with no time limit in the 2-argument shape); the thread blocks in
\* self.tnt.call
acquire(t, lock_name, validity, timeout) ==
    /\ pc[t] = "call"
    /\ chan[t] # NoChan
    /\ LET o == acquire_op(lock_name, validity, timeout)
           args == acquire_args(lock_name, validity, timeout)
           to == ArgTimeout(args)
       IN  IF ~IsHeld(args[1])
           THEN CanIssue /\ Grant(t, o, args[1], args[2])
           ELSE IF to = 0
                THEN Refuse(t, o, args[1])
                ELSE /\ op' = [op EXCEPT ![t] = o]
                     /\ pc' = [pc EXCEPT ![t] = "wait"]
                     /\ waitLeft' = [waitLeft EXCEPT ![t] = to]
                     /\ UNCHANGED <<connVars, lk, inst, concls, chan, result, reply, locks,
                                    authVars>>

\* a waiting acquire is granted once the name is free
AcquireWaitGrant(t) ==
    /\ pc[t] = "wait"
    /\ LET args == acquire_args(op[t].name, op[t].validity, op[t].timeout)
       IN  /\ ~IsHeld(args[1])
           /\ waitLeft[t] # Overdue
           /\ CanIssue
           /\ Grant(t, op[t], args[1], args[2])

\* a waiting acquire is refused: one with a timeout once the timeout has run
\* out; one in the 2-argument shape at any moment the name is held, or never.
\* What the authority does with a 2-argument call for a held name is not in
\* the source, and its two descriptions disagree: the method's docstring
\* (line 199) has it wait forever, the module's example (lines 16-19) has it
\* answered with None.  Both are behaviours of this action.
AcquireWaitTimeout(t) ==
    /\ pc[t] = "wait"
    /\ \/ waitLeft[t] \in {0, Overdue}
       \/ waitLeft[t] = None /\ IsHeld(op[t].name)
    /\ Refuse(t, op[t], op[t].name)

\* lines 207-210, from the reply on: the_tuple is the first tuple of the reply
acquire_return(t) ==
    /\ pc[t] = "reply"
    /\ op[t].kind = "acquire"
    /\ Return(t, acquire_result(reply[t]))
    /\ UNCHANGED <<connVars, op, lk, inst, concls, chan, waitLeft, authVars>>

\* line 218, up to the request being served by the authority
update(t, lock_uid, validity) ==
    /\ pc[t] = "call"
    /\ chan[t] # NoChan
    /\ leases' = UpdateLeases(lock_uid, validity)
    /\ Reply(t, update_op(lock_uid, validity), UidReply(lock_uid))
    /\ UNCHANGED nextUid

\* lines 218-220, from the reply on
update_return(t) ==
    /\ pc[t] = "reply"
    /\ op[t].kind = "update"
    /\ Return(t, update_result(reply[t]))
    /\ UNCHANGED <<connVars, op, lk, inst, concls, chan, waitLeft, authVars>>

\* line 228, up to the request being served by the authority
release(t, lock_uid) ==
    /\ pc[t] = "call"
    /\ chan[t] # NoChan
    /\ leases' = ReleaseLeases(lock_uid)
    /\ Reply(t, release_op(lock_uid), UidReply(lock_uid))
    /\ UNCHANGED nextUid

\* lines 228-230, from the reply on
release_return(t) ==
    /\ pc[t] = "reply"
    /\ op[t].kind = "release"
    /\ Return(t, release_result(reply[t]))
    /\ UNCHANGED <<connVars, op, lk, inst, concls, chan, waitLeft, authVars>>

\* lines 72-78: Lock.update delegates to Locksmith.update with the handle's uid
Lock_update(t, h, validity) == update(t, h.uid, validity)

\* a handle that releases whatever lease its name has now
Lock_release_ByName(t, h) ==
    IF IsHeld(h.name)
    THEN \E l \in leases : l.name = h.name /\ Active(l) /\ release(t, l.uid)
    ELSE release(t, h.uid)

\* lines 80-86: Lock.release delegates to Locksmith.release with the handle's uid
Lock_release(t, h) == release(t, h.uid)

\* the authority's statistics reply: the number of active leases
StatsReply == <<Cardinality({l \in leases : Active(l)})>>

\* line 234, up to the request being served by the authority
statistics(t) ==
    /\ pc[t] = "call"
    /\ chan[t] # NoChan
    /\ Reply(t, statistics_op, StatsReply)
    /\ UNCHANGED authVars

\* line 234: element 0 of the first tuple of the reply, as it is
statistics_result(the_tuple) == PyStats(the_tuple[1])

\* line 234, from the reply on
statistics_return(t) ==
    /\ pc[t] = "reply"
    /\ op[t].kind = "statistics"
    /\ Return(t, statistics_result(reply[t]))
    /\ UNCHANGED <<connVars, op, lk, inst, concls, chan, waitLeft, authVars>>

\* lines 207, 218, 228, 234: `.call` on the value of self.tnt when that is None
CallOnNone(t) ==
    /\ pc[t] = "call"
    /\ chan[t] = NoChan
    /\ Return(t, Raised("AttributeError"))
    /\ UNCHANGED <<connVars, op, lk, inst, concls, chan, waitLeft, authVars>>

\* the errors self.tnt.call can raise (lines 92-93)
CallErrors == {"NetworkError", "DatabaseError"}
\* a method that catches the error of the call and returns None
call_raises_Swallowed(e) == PyNone
\* lines 207, 218, 228, 234: there is no handler around self.tnt.call(...), so
\* an exception it raises leaves the method as it is
call_raises(e) == Raised(e)

\* the methods whose remote call can fail (lines 207, 218, 228, 234)
Methods == {"acquire", "update", "release", "statistics"}

\* the record of a call that raised: the method, its arguments gone with its frame
Failed(o) == [NoOp EXCEPT !.kind = o.kind]

\* self.tnt.call(...) of method k raises e before the request has reached the
\* authority
CallFails(t, k, e) ==
    /\ pc[t] = "call"
    /\ chan[t] # NoChan
    /\ op' = [op EXCEPT ![t] = [NoOp EXCEPT !.kind = k]]
    /\ Return(t, call_raises(e))
    /\ UNCHANGED <<connVars, lk, inst, concls, chan, waitLeft, authVars>>

\* the call of an acquire that is waiting at the authority raises e
AcquireWaitFails(t, e) ==
    /\ pc[t] = "wait"
    /\ op' = [op EXCEPT ![t] = Failed(op[t])]
    /\ waitLeft' = [waitLeft EXCEPT ![t] = None]
    /\ Return(t, call_raises(e))
    /\ UNCHANGED <<connVars, lk, inst, concls, chan, authVars>>

\* the call raises e after the authority has served the request: the reply is lost
ReplyFails(t, e) ==
    /\ pc[t] = "reply"
    /\ op' = [op EXCEPT ![t] = Failed(op[t])]
    /\ Return(t, call_raises(e))
    /\ UNCHANGED <<connVars, lk, inst, concls, chan, waitLeft, authVars>>

\* a second passes at the authority: every lease has a second less to live,
\* those whose time is up leave the table, and every acquire waiting with a
\* timeout has a second less to wait
Tick ==
    /\ leases' = {[l EXCEPT !.ttl = l.ttl - 1] : l \in {k \in leases : k.ttl > 1}}
    /\ waitLeft' = [t \in Threads |->
                       IF waitLeft[t] \in {None, Overdue} THEN waitLeft[t]
                       ELSE IF waitLeft[t] = 0 THEN Overdue
                       ELSE waitLeft[t] - 1]
    /\ UNCHANGED <<connVars, pc, op, lk, inst, concls, chan, result, reply, locks, nextUid>>

(* --------------------------- specifications ---------------------------- *)
\* the lock protocol: two threads calling acquire, update and release,
\* directly and through Lock handles, while time passes at the authority
Next ==
    \/ \E t \in Clients :
        \/ Enter(t)
        \/ tnt(t)
        \/ \E n \in Names, v \in Validities, to \in Timeouts : acquire(t, n, v, to)
        \/ AcquireWaitGrant(t)
        \/ AcquireWaitTimeout(t)
        \/ \E u \in KnownUids, v \in Validities : update(t, u, v)
        \/ \E u \in KnownUids : release(t, u)
        \/ \E h \in locks, v \in Validities : Lock_update(t, h, v)
        \/ \E h \in locks : Lock_release(t, h)
        \/ acquire_return(t)
        \/ update_return(t)
        \/ release_return(t)
    \/ Tick

Spec == Init /\ [][Next]_vars

\* the four remote calls over a connection whose calls can fail, the
\* authority's clock standing still (so that the validity of a lease plays no
\* part: every call carries MaxValidity)
NextFault ==
    \E t \in Clients :
        \/ Enter(t)
        \/ tnt(t)
        \/ \E n \in Names, to \in Timeouts : acquire(t, n, MaxValidity, to)
        \/ AcquireWaitGrant(t)
        \/ \E u \in KnownUids : update(t, u, MaxValidity)
        \/ \E u \in KnownUids : release(t, u)
        \/ statistics(t)
        \/ acquire_return(t)
        \/ update_return(t)
        \/ release_return(t)
        \/ statistics_return(t)
        \/ \E k \in Methods, e \in CallErrors : CallFails(t, k, e)
        \/ \E e \in CallErrors : AcquireWaitFails(t, e)
        \/ \E e \in CallErrors : ReplyFails(t, e)

SpecFault == Init /\ [][NextFault]_vars

\* first use of the connection: NumThreads threads calling into the Locksmith
\* at once, no substitution
NextTnt ==
    \E t \in Threads :
        \/ Enter(t)
        \/ tnt(t)
        \/ statistics(t)
        \/ statistics_return(t)

SpecTnt == Init /\ [][NextTnt]_vars

\* first use of the connection under a scheduler that lets every thread run
SpecTntLive == Init /\ [][NextTnt]_vars /\ \A t \in Threads : WF_vars(tnt(t))

\* use of the connection when the connection constructor can raise
NextFail ==
    \E t \in Threads :
        \/ Enter(t)
        \/ tnt(t)
        \/ TntConstructFails(t)
        \/ statistics(t)
        \/ statistics_return(t)

SpecFail == Init /\ [][NextFail]_vars

\* the whole lifetime of the connection: threads calling into the Locksmith
\* while a configuring caller substitutes the connection class and the lock
NextSub ==
    \/ \E t \in Clients :
        \/ Enter(t)
        \/ tnt(t)
        \/ statistics(t)
        \/ statistics_return(t)
        \/ CallOnNone(t)
    \/ \E c \in ConClasses : SetConnectionClass(c)
    \/ SetConnectionReset
    \/ \E l \in LockObjects : SetLock(l)

SpecSub == Init /\ [][NextSub]_vars

\* from the call of the constructor on: Locksmith(host, port) with any of the
\* arguments, then, if an object was made, its use as in SpecSub
NextNew ==
    \/ \E h \in Hosts, p \in Ports : Locksmith_init(h, p)
    \/ cpc \notin {"new", "failed"} /\ NextSub

SpecNew == InitNew /\ [][NextNew]_vars


\* two threads each call acquire once, with timeout 0, while nothing else
\* happens: no release, no update, no time passing
EnterOnce(t) == pc[t] = "idle" /\ Enter(t)

NextRace ==
    \E t \in Clients :
        \/ EnterOnce(t)
        \/ tnt(t)
        \/ \E n \in Names, v \in Validities : acquire(t, n, v, 0)
        \/ acquire_return(t)

SpecRace == Init /\ [][NextRace]_vars

(* ------------------------------- claims -------------------------------- *)
\* the handle names an active lease of its name
ValidHandle(h) == \E l \in leases : l.uid = h.uid /\ l.name = h.name /\ Active(l)
\* thread t has just been handed a Lock by acquire
HasLock(t) == pc[t] = "ret" /\ result[t].kind = "Lock"

\* C1: mutual exclusion. In every reachable state each name has at most one
\* active lease at the authority, at most one of the Lock handles handed out
\* for a name is still valid, and no two threads have each been handed a Lock
\* that is valid for the same name.
C1_MutualExclusion ==
    /\ \A l1 \in leases, l2 \in leases :
          (l1.name = l2.name /\ Active(l1) /\ Active(l2)) => l1 = l2
    /\ \A h1 \in locks, h2 \in locks :
          (h1.name = h2.name /\ ValidHandle(h1) /\ ValidHandle(h2)) => h1 = h2
    /\ \A t1 \in Threads, t2 \in Threads :
          (t1 # t2 /\ HasLock(t1) /\ HasLock(t2) /\ result[t1].name = result[t2].name)
              => ~(ValidHandle(result[t1]) /\ ValidHandle(result[t2]))

\* C1 witness: both threads have been handed a Lock for the same name (one
\* after the other's lease ended) and only one of the two handles is valid
C1_Witness ==
    \E t1 \in Threads, t2 \in Threads :
        /\ t1 # t2 /\ HasLock(t1) /\ HasLock(t2)
        /\ result[t1].name = result[t2].name
        /\ ValidHandle(result[t1]) /\ ~ValidHandle(result[t2])

\* the threads whose acquire of name n has returned
Returned(n) == {t \in Clients : pc[t] = "ret" /\ op[t].kind = "acquire" /\ op[t].name = n}

\* C2: of the concurrent acquire(n, v, timeout=0) calls on a free name n, at
\* no time have two returned a Lock, every one that has returned got a Lock or
\* None, and once both are back one has a Lock and the other None.
C2_OneWinner ==
    \A n \in Names :
        /\ Cardinality({t \in Returned(n) : result[t].kind = "Lock"}) <= 1
        /\ \A t \in Returned(n) : result[t].kind \in {"Lock", "None"}
        /\ Returned(n) = Clients =>
              /\ Cardinality({t \in Returned(n) : result[t].kind = "Lock"}) = 1
              /\ Cardinality({t \in Returned(n) : result[t] = PyNone}) = 1

\* C2 witness: both calls on the same name are back, one with a Lock, one with None
C2_Witness ==
    \E n \in Names :
        /\ Returned(n) = Clients
        /\ \E t \in Clients : result[t].kind = "Lock"
        /\ \E t \in Clients : result[t] = PyNone

\* thread t has the value self.tnt returned to it
GotChannel(t) == pc[t] \in {"call", "wait", "reply", "ret"}

\* C3: with any number of threads making first use of self.tnt at once, the
\* connection constructor runs exactly once and every caller gets that one
\* instance.
C3_ConstructedOnce ==
    /\ constructed <= 1
    /\ \A t \in Threads :
          GotChannel(t) =>
              /\ constructed = 1
              /\ chan[t] = Channel(1, "Connection")
              /\ \A u \in Threads : GotChannel(u) => chan[u] = chan[t]

\* C3 witness: every thread went past the first check while the connection was
\* unset, one constructed it, and all of them hold that instance
C3_Witness ==
    /\ constructed = 1
    /\ \A t \in Threads : pc[t] = "call" /\ chan[t] = _tnt /\ op[t] = NoOp /\ _tnt # NoChan

AllUids == 1..UnknownUid
\* this step is the one in which thread t's call of method k reaches the authority
Calls(t, k) == pc[t] = "call" /\ pc'[t] # "call" /\ op'[t].kind = k
\* this step is the one in which the authority grants thread t's acquire
Granted(t) ==
    /\ pc[t] \in {"call", "wait"} /\ pc'[t] = "reply"
    /\ op'[t].kind = "acquire" /\ reply'[t][1] # Nil
\* this step is the one in which thread t's call of method k returns
Returns(t, k) == pc[t] = "reply" /\ pc'[t] = "ret" /\ op[t].kind = k
\* thread t's call of method k is back with value r
Back(t, k, r) == pc[t] = "ret" /\ op[t].kind = k /\ result[t] = r

\* C5: a release that reaches the authority while the lease is active frees its
\* name there and then (an acquire of a free name is granted when it arrives)
\* and its reply makes release return True; one that finds the uid not active
\* changes nothing and its reply makes release return False; and a uid that
\* was issued and is no longer active never becomes active again, so a second
\* release of the same uid returns False.
C5_ReleaseFreesOnce ==
    [][ /\ \A t \in Clients, u \in AllUids :
              (Calls(t, "release") /\ op'[t].uid = u) =>
                  /\ pc'[t] = "reply"
                  /\ IF IsActiveUid(u)
                     THEN /\ reply'[t][1] # Nil
                          /\ ~IsActiveUid(u)'
                          /\ \A l \in leases : l.uid = u =>
                                 /\ ~IsHeld(l.name)'
                                 /\ leases' = leases \ {l}
                     ELSE /\ reply'[t][1] = Nil
                          /\ leases' = leases
        /\ \A t \in Clients :
              Returns(t, "release") =>
                  /\ result'[t] = IF reply[t][1] = Nil THEN PyFalse ELSE PyTrue
                  /\ leases' = leases
        /\ \A u \in AllUids : (u < nextUid /\ ~IsActiveUid(u)) => ~IsActiveUid(u)'
        /\ \A t \in Clients, n \in Names :
              (Calls(t, "acquire") /\ op'[t].name = n /\ ~IsHeld(n)) =>
                  /\ Granted(t)
                  /\ ValidHandle(Lock(reply[t][2], reply[t][3]))'
      ]_vars

\* C5 witness: two releases of the same uid are back, one True and one False
C5_Witness ==
    \E t1 \in Clients, t2 \in Clients :
        /\ Back(t1, "release", PyTrue) /\ Back(t2, "release", PyFalse)
        /\ op[t1].uid = op[t2].uid

\* C6: an acquire with timeout 0 is answered when it arrives: refused, nothing
\* changed, while the name has an unexpired lease; otherwise (no lease, or its
\* time is up) granted with a uid that differs from every uid issued before.
\* acquire returns None for the refusal and a Lock of that name and uid for the
\* grant.  A granted lease has validity seconds to live, every second that
\* passes takes one of them, the lease is gone when none is left, and nothing
\* but an update of its uid changes the time a lease has left otherwise.
C6_AbsentUntilExpiry ==
    [][ /\ \A t \in Clients, n \in Names :
              (Calls(t, "acquire") /\ op'[t].name = n /\ op'[t].timeout = 0) =>
                  /\ pc'[t] = "reply"
                  /\ IF \E l \in leases : l.name = n /\ l.ttl > 0
                     THEN reply'[t] = <<Nil, n, Nil>> /\ leases' = leases
                     ELSE /\ reply'[t][1] # Nil /\ reply'[t][2] = n
                          /\ reply'[t][3] \notin 1..(nextUid - 1)
                          /\ \A h \in locks : h.uid # reply'[t][3]
        /\ \A t \in Clients :
              Returns(t, "acquire") =>
                  result'[t] = IF reply[t][1] = Nil THEN PyNone
                               ELSE Lock(reply[t][2], reply[t][3])
        /\ \A t \in Clients, n \in Names, v \in Validities :
              /\ (Granted(t) /\ \E to \in Timeouts : acquire(t, n, v, to)) =>
                    [name |-> n, uid |-> reply'[t][3], ttl |-> v] \in leases'
              /\ (Granted(t) /\ pc[t] = "wait" /\ op[t].name = n /\ op[t].validity = v) =>
                    [name |-> n, uid |-> reply'[t][3], ttl |-> v] \in leases'
        /\ \A l \in leases, l2 \in leases' :
              (l2.uid = l.uid /\ l2.ttl # l.ttl) =>
                  \/ Tick /\ l2.ttl = l.ttl - 1
                  \/ \E t \in Clients : Calls(t, "update") /\ op'[t].uid = l.uid
        /\ \A l \in leases :
              Tick => IF l.ttl > 1 THEN [l EXCEPT !.ttl = l.ttl - 1] \in leases'
                      ELSE \A l2 \in leases' : l2.uid # l.uid
      ]_vars

\* C6 witness: a thread's acquire with timeout 0 has returned a Lock for a name
\* while the other thread is still back from the acquire that returned the
\* earlier Lock of that name, whose lease is gone
C6_Witness ==
    \E t \in Clients, u \in Clients :
        /\ HasLock(t) /\ op[t].kind = "acquire" /\ op[t].timeout = 0
        /\ HasLock(u) /\ op[u].kind = "acquire"
        /\ result[u].name = result[t].name /\ result[u].uid < result[t].uid
        /\ ~ValidHandle(result[u]) /\ ValidHandle(result[t])

\* C7: an update that reaches the authority while the lease is active leaves
\* the same lease (same name, same uid) with validity seconds to live, and its
\* reply makes update return True; one that finds the uid not active leaves the
\* table as it is and its reply makes update return False.
C7_UpdateExtends ==
    [][ /\ \A t \in Clients, u \in AllUids, v \in Validities :
              update(t, u, v) =>
                  /\ pc'[t] = "reply"
                  /\ IF \E l \in leases : l.uid = u /\ l.ttl > 0
                     THEN /\ reply'[t][1] # Nil
                          /\ \A l \in leases : l.uid = u =>
                                leases' = (leases \ {l}) \cup
                                    {[name |-> l.name, uid |-> u, ttl |-> v]}
                     ELSE /\ reply'[t][1] = Nil
                          /\ leases' = leases
        /\ \A t \in Clients :
              /\ Calls(t, "update") =>
                    \E u \in AllUids, v \in Validities : update(t, u, v)
              /\ Returns(t, "update") =>
                    /\ result'[t] = IF reply[t][1] = Nil THEN PyFalse ELSE PyTrue
                    /\ leases' = leases
      ]_vars

\* C7 witness: an update has returned True for a lease that has more than a
\* second left, and the acquire of its name by the other thread is back with None
C7_Witness ==
    \E t \in Clients, u \in Clients, l \in leases :
        /\ Back(t, "update", PyTrue)
        /\ l.uid = op[t].uid
        /\ l.ttl > 1
        /\ Back(u, "acquire", PyNone) /\ op[u].name = l.name

\* the authority's reply to thread t is a refusal
Refused(t) == reply[t][1] = Nil

\* C10: a handle that is stale (its lease released or expired) stays stale;
\* every update and release made with it finds no lease and leaves the table
\* as it is; and the reply to such a call makes the method return False: it
\* raises nothing.
C10_StaleFailsSoftly ==
    [][ /\ \A h \in locks :
              ~ValidHandle(h) =>
                  /\ ~ValidHandle(h)'
                  /\ \A t \in Clients :
                        ( /\ Lock_release(t, h) \/ \E v \in Validities : Lock_update(t, h, v) ) =>
                            /\ pc'[t] = "reply"
                            /\ Refused(t)'
                            /\ leases' = leases
        /\ \A t \in Clients :
              ((Returns(t, "update") \/ Returns(t, "release")) /\ Refused(t)) =>
                  result'[t] = PyFalse
      ]_vars

\* C10 witness: an update and a release made with the same stale handle are
\* both back with False
C10_Witness ==
    \E h \in locks, t1 \in Clients, t2 \in Clients :
        /\ ~ValidHandle(h)
        /\ Back(t1, "update", PyFalse) /\ op[t1].uid = h.uid
        /\ Back(t2, "release", PyFalse) /\ op[t2].uid = h.uid

\* the current lease of name n: its holder uid and expiry, if it has one
CurrentLease(n) == {l \in leases : l.name = n /\ Active(l)}

\* C11: the uid is the only credential.  update or release with a uid that is
\* not the uid of an active lease (one never issued, or that of an earlier grant
\* whose name may since have been acquired by someone else), made directly or
\* through the old Lock handle, is refused and leaves the current lease of
\* every name, uid and expiry, as it was; the method returns False for the
\* refusal, and its return changes no lease either.
C11_OnlyCurrentLeaseId ==
    [][ /\ \A t \in Clients, u \in AllUids :
              ( /\ Calls(t, "update") \/ Calls(t, "release")
                /\ op'[t].uid = u
                /\ ~(\E l \in leases : l.uid = u /\ l.ttl > 0) ) =>
                  /\ pc'[t] = "reply" /\ Refused(t)'
                  /\ \A n \in Names : CurrentLease(n)' = CurrentLease(n)
        /\ \A t \in Clients, h \in locks :
              ( /\ Lock_release(t, h) \/ \E v \in Validities : Lock_update(t, h, v)
                /\ ~ValidHandle(h) ) =>
                  /\ pc'[t] = "reply" /\ Refused(t)'
                  /\ \A n \in Names : CurrentLease(n)' = CurrentLease(n)
        /\ \A t \in Clients :
              (Returns(t, "update") \/ Returns(t, "release")) =>
                  /\ Refused(t) => result'[t] = PyFalse
                  /\ \A n \in Names : CurrentLease(n)' = CurrentLease(n)
      ]_vars

\* C11 witness: a call made with the uid of an earlier grant of a name is back
\* with False while the other thread holds the lease it has since been granted
\* for that name
C11_Witness ==
    \E t \in Clients, u \in Clients, h \in locks :
        /\ pc[t] = "ret" /\ op[t].kind \in {"update", "release"}
        /\ op[t].uid = h.uid /\ result[t] = PyFalse
        /\ ~ValidHandle(h)
        /\ u # t /\ HasLock(u) /\ result[u].name = h.name /\ result[u].uid > h.uid
        /\ ValidHandle(result[u])

\* the constructor has raised / has returned an object
InitFailed == cpc = "failed"
InitDone == cpc \notin {"new", "failed"}

\* C12 as stated: a construction that fails raises Locksmith.BadConfigException
\* and nothing else and leaves no object and no connection behind, and a
\* construction with an empty or missing host, an empty or zero port or a port
\* that is not an integer does fail.
C12_FailsWithBadConfig ==
    /\ InitFailed =>
          /\ cresult = Raised("BadConfigException")
          /\ _lockinst = NoLock /\ _conclass = "unset" /\ _tnt = NoChan /\ constructed = 0
    /\ InitDone => Truthy_host(host) /\ Truthy_port(port) /\ IsInt(port)

\* C13: at both substitution points None puts the built-in default back
\* (tarantool.Connection, a fresh threading.Lock), and an object without the
\* required methods (`call` for the connection class; `__enter__` and `__exit__`
\* for the lock) is rejected by the setter call itself with an error, the class,
\* the lock object and the connection staying as they were.
C13_ResetOrReject ==
    [][ /\ \A c \in ConClasses :
              SetConnectionClass(c) =>
                  IF c = "None"
                  THEN _conclass' = "Connection" /\ cresult' = PyNone
                  ELSE ~HasCall(c) =>
                          /\ cresult'.kind = "raise" /\ cpc' = "idle"
                          /\ _conclass' = _conclass /\ _tnt' = _tnt
                          /\ _lockinst' = _lockinst
        /\ \A l \in LockObjects :
              SetLock(l) =>
                  IF l = "None"
                  THEN /\ _lockinst'.cls = "threading.Lock" /\ cresult' = PyNone
                       /\ mutex[_lockinst'.id] = 0
                  ELSE (~HasEnter(l) \/ ~HasExit(l)) =>
                          /\ cresult'.kind = "raise" /\ cpc' = "idle"
                          /\ _lockinst' = _lockinst
                          /\ _conclass' = _conclass /\ _tnt' = _tnt
      ]_vars

\* C13 witness: a custom class was set and a connection of it made, then a
\* setter call was rejected, and class and connection are still in place
C13_Witness ==
    /\ cresult = Raised("TypeError")
    /\ cpc = "idle"
    /\ _conclass = "Custom"
    /\ _tnt # NoChan /\ _tnt.cls = "Custom"

\* C15 as stated: whatever the interleaving, substitutions of the connection
\* class included, the value self.tnt returned to a thread is a constructed
\* connection, never None.
C15_GetterNeverNone == \A t \in Clients : GotChannel(t) => chan[t] # NoChan

\* C20 as stated: a substitution of the connection class discards the
\* connection, and once it is over (no setter call in progress) every
\* connection self.tnt returns is an instance of the class now set.
C20_NewTypeAfterSubstitution ==
    [][ /\ SetConnectionReset => _tnt' = NoChan
        /\ \A t \in Clients :
              (TntReturn(t) /\ cpc = "idle" /\ chan'[t] # NoChan)
                  => chan'[t].cls = _conclass
      ]_vars

\* C14: when the remote call of acquire, update, release or statistics raises
\* a network or database error, the method raises that same error (never None
\* or False in its place), and the operation is over: the thread makes no other
\* remote call until its caller starts a new operation.
C14_ErrorsPropagate ==
    [][ \A t \in Clients :
          /\ \A e \in CallErrors :
                ( /\ pc[t] \in {"call", "wait", "reply"} /\ pc'[t] = "ret"
                  /\ \/ \E k \in Methods : CallFails(t, k, e)
                     \/ AcquireWaitFails(t, e)
                     \/ ReplyFails(t, e) ) =>
                    /\ pc'[t] = "ret"
                    /\ result'[t] = Raised(e)
          /\ (pc[t] = "ret" /\ result[t].kind = "raise") =>
                \/ pc'[t] = "ret" /\ result'[t] = result[t] /\ op'[t] = op[t]
                \/ pc'[t] = "tnt_check" /\ op'[t] = NoOp
      ]_vars

\* C14 witness: an acquire is back with NetworkError and a release by the other
\* thread with DatabaseError
C14_Witness ==
    \E t \in Clients, u \in Clients :
        /\ pc[t] = "ret" /\ op[t].kind = "acquire" /\ result[t] = Raised("NetworkError")
        /\ pc[u] = "ret" /\ op[u].kind = "release" /\ result[u] = Raised("DatabaseError")

\* C16: acquire sends (name, validity) when timeout is None and
\* (name, validity, timeout), the value as given, for every other timeout, 0
\* included.  It makes its one remote call in one step and then has the reply
\* or waits for it at the authority, which treats the call by the shape it
\* got: no limit for two arguments, an answer at once for timeout 0, a wait
\* of timeout seconds otherwise.  Only the authority ends a wait, and a call
\* that is back makes no other remote call.
C16_CallShape ==
    /\ \A n \in Names, v \in Validities, to \in Timeouts :
          acquire_args(n, v, to) = IF to = None THEN <<n, v>> ELSE <<n, v, to>>
    /\ [][ /\ \A t \in Clients :
                Calls(t, "acquire") =>
                    \A n \in Names, v \in Validities, to \in Timeouts :
                        acquire(t, n, v, to) =>
                            /\ pc'[t] \in {"reply", "wait"}
                            /\ op'[t].name = n /\ op'[t].timeout = to
                            /\ IsHeld(n) =>
                                  IF to = None
                                  THEN pc'[t] = "wait" /\ waitLeft'[t] = None
                                  ELSE IF to = 0
                                  THEN pc'[t] = "reply" /\ reply'[t] = <<Nil, n, Nil>>
                                  ELSE pc'[t] = "wait" /\ waitLeft'[t] = to
           /\ \A t \in Clients :
                 /\ (pc[t] = "wait" /\ pc'[t] # "wait") =>
                       /\ pc'[t] = "reply"
                       /\ AcquireWaitGrant(t) \/ AcquireWaitTimeout(t)
                 /\ (pc[t] = "reply") => (pc'[t] \in {"reply", "ret"})
                 /\ (pc[t] = "ret") => (pc'[t] \in {"ret", "tnt_check"})
         ]_vars

\* C16 witness: an acquire with timeout 0 is back with None while one with a
\* positive timeout and one with none have been waiting at the authority
C16_Witness ==
    \E t \in Clients, u \in Clients :
        /\ pc[t] = "ret" /\ op[t].kind = "acquire" /\ op[t].timeout = 0
        /\ result[t] = PyNone
        /\ pc[u] = "wait" /\ op[u].timeout > 0 /\ waitLeft[u] = op[u].timeout

\* the positions of the getter inside its `with` block
InWith == {"tnt_recheck", "tnt_getclass", "tnt_construct", "tnt_assign", "tnt_exit"}
\* the positions of the getter
InGetter == {"tnt_check", "tnt_getlock", "tnt_enter", "tnt_return"} \cup InWith
\* thread t holds no lock object
HoldsNoLock(t) == \A m \in Mutexes : mutex[m] # t

\* C17: a thread holds the lock only inside the `with` block of the getter,
\* never while its remote call is made or waits.  Once the connection exists
\* the getter goes from its first check to its return without the lock.  So
\* while a thread waits in acquire every other thread can take its next step,
\* and one that has the connection can issue update or release of any handle
\* and an acquire of a held name, and one whose reply is there can return.
C17_LockOnlyForConstruction ==
    /\ [](\A t \in Clients : pc[t] \notin InWith => HoldsNoLock(t))
    /\ [][\A t \in Clients :
            (pc[t] = "tnt_check" /\ _tnt # NoChan /\ pc'[t] # pc[t])
                => pc'[t] = "tnt_return" /\ mutex' = mutex]_vars
    /\ [](\A t \in Clients, u \in Clients :
            (t # u /\ pc[t] = "wait") =>
                /\ pc[u] \in {"idle", "ret"} => ENABLED Enter(u)
                /\ pc[u] \in InGetter => ENABLED tnt(u)
                /\ pc[u] = "call" =>
                      /\ \A h \in locks : ENABLED Lock_release(u, h)
                      /\ \A h \in locks, v \in Validities : ENABLED Lock_update(u, h, v)
                      /\ \A n \in Names, v \in Validities :
                            IsHeld(n) => ENABLED acquire(u, n, v, 0)
                /\ pc[u] = "reply" =>
                      ENABLED (acquire_return(u) \/ update_return(u) \/ release_return(u)))

\* C17 witness: a thread is waiting in acquire for a name, and the other thread
\* is back with True from the release of the one lease ever granted
C17_Witness ==
    \E t \in Clients, u \in Clients :
        /\ pc[t] = "wait"
        /\ pc[u] = "ret" /\ op[u].kind = "release" /\ result[u] = PyTrue
        /\ nextUid = 2 /\ op[u].uid = 1
        /\ Lock(op[t].name, 1) \in locks

\* C18: with every thread given its turn and a constructor that returns, a
\* thread that has entered the getter gets out of it with the connection.
C18_GetterReturns ==
    \A t \in Threads : (pc[t] \in InGetter) ~> (pc[t] = "call" /\ chan[t] # NoChan)

\* C18 witness: a thread is blocked on the lock another thread constructs
\* under, while a third is already back from the getter
C18_Witness ==
    \E t \in Threads, u \in Threads, w \in Threads :
        /\ pc[t] = "tnt_enter" /\ mutex[lk[t]] = u /\ u # t
        /\ pc[w] = "call" /\ chan[w] # NoChan

\* C19: when the connection constructor raises, the connection stays unset,
\* the lock is released on the way out and the caller gets the error; a thread
\* holds the lock only inside the `with` block, so a thread blocked on the lock
\* is blocked by one that can go on; and a connection that is set is one the
\* constructor returned.
C19_FailedConstructionRecovers ==
    /\ [](\A t \in Threads :
            /\ pc[t] \notin InWith => HoldsNoLock(t)
            /\ (pc[t] = "ret" /\ result[t].kind = "raise") =>
                  result[t] = Raised("NetworkError") /\ chan[t] = NoChan
            /\ pc[t] = "tnt_enter" =>
                  mutex[lk[t]] = 0 \/ (mutex[lk[t]] # t /\ pc[mutex[lk[t]]] \in InWith))
    /\ [](_tnt # NoChan => _tnt.id \in 1..constructed /\ _tnt.cls = "Connection")
    /\ [][\A t \in Threads :
            /\ TntConstructFails(t) =>
                  _tnt' = NoChan /\ constructed' = constructed /\ inst'[t] = NoChan
            /\ (result[t].kind = "raise" /\ TntExit(t)) =>
                  /\ _tnt' = NoChan
                  /\ mutex'[lk[t]] = 0
                  /\ pc'[t] = "ret" /\ result'[t] = result[t]]_vars

\* C19 witness: one thread is back from a failed construction with the error
\* and another has since constructed the connection and got it
C19_Witness ==
    \E t \in Threads, u \in Threads :
        /\ pc[t] = "ret" /\ result[t] = Raised("NetworkError")
        /\ pc[u] = "call" /\ chan[u] = Channel(1, "Connection") /\ _tnt = chan[u]

=============================================================================
